---- MODULE Spec2Model ----
(***************************************************************************)
(* A model of docbase_mcp (src/src/index.ts): an MCP server exposing two   *)
(* tools, searchMemos and getMemoDetail, that each issue one GET request   *)
(* against the DocBase API and project the JSON answer.                    *)
(*                                                                         *)
(* Strings are sequences of tokens.  A token is one character ("/", "?",   *)
(* "1", ...) or an atomic run of ordinary characters ("teams", "acme").    *)
(* JavaScript's undefined, null, numbers, strings, arrays and objects are  *)
(* tagged records (Undef, JNull, JNum, JStr, JArr, JObj).  An optional     *)
(* argument is <<>> when absent and <<v>> when supplied.                   *)
(***************************************************************************)
EXTENDS Integers, Sequences, FiniteSets, TLC

VARIABLES
    env,          \* process.env: [token, domain], each absent or a string
    proc,         \* position of the module's top-level code / process state
    exitCode,     \* <<>> while running, <<n>> after process.exit(n)
    server,       \* TRUE once `new McpServer(...)` has run
    tools,        \* names registered with server.tool
    connected,    \* TRUE once server.connect(transport) has resolved
    pc,           \* pc[c]: position of tool call c (idle, fetch, json, done)
    tool,         \* tool[c]: tool name of call c
    args,         \* args[c]: the parameters the host passed to call c
    sent,         \* sent[c]: the HTTP requests call c has issued, in order
    answers,      \* answers[c]: whether the upstream ever answers call c's request
    resp,         \* resp[c]: <<>> or <<[status, statusText]>> once fetch resolved
    body,         \* body[c]: <<>> or <<parsed JSON>> once response.json() resolved
    result,       \* result[c]: what the handler returned or threw
    afterFailure  \* history: afterFailure[c] iff a call had failed when c was invoked

vars == <<env, proc, exitCode, server, tools, connected,
          pc, tool, args, sent, answers, resp, body, result, afterFailure>>

procVars == <<env, proc, exitCode, server, tools, connected>>
callVars == <<pc, tool, args, sent, answers, resp, body, result, afterFailure>>

(***************************************************************************)
(* Bounds of the model.                                                    *)
(***************************************************************************)
MaxCalls == 3      \* tool calls the host makes in one run
MaxFewCalls == 2   \* tool calls of the runs with fairness or many statuses
MaxPosts == 2      \* posts in one search response
MaxNames == 2      \* tags (and groups) in one detail response
MaxIdLen == 3      \* pieces of the id passed to getMemoDetail
MaxPerPage == 102  \* largest perPage the host supplies

Calls == 1..MaxCalls

None == <<>>
Some(x) == <<x>>

(***************************************************************************)
(* Strings and numbers.                                                    *)
(***************************************************************************)
DigitChars == <<"0", "1", "2", "3", "4", "5", "6", "7", "8", "9">>

RECURSIVE NatToString(_)
NatToString(n) ==
    IF n < 10 THEN <<DigitChars[n + 1]>>
    ELSE NatToString(n \div 10) \o <<DigitChars[(n % 10) + 1]>>

\* Number.prototype.toString() of an integer
NumberToString(n) ==
    IF n < 0 THEN <<"-">> \o NatToString(-n) ELSE NatToString(n)

\* String.prototype.includes
Contains(s, sub) ==
    \E i \in 1..(Len(s) - Len(sub) + 1) : SubSeq(s, i, i + Len(sub) - 1) = sub

\* JavaScript truthiness of an optional string: undefined and "" are falsy
Falsy(v) == v = None \/ v = Some(<<>>)

(***************************************************************************)
(* URLs: the parts of the WHATWG URL parser that `new URL(input, BASE_URL)`*)
(* runs on an input that starts with "/" followed by an ordinary           *)
(* character (both templates start with "/teams/"): the scheme and the     *)
(* host come from the base, the rest of the input goes through the path    *)
(* state, the query state and the fragment state.                          *)
(***************************************************************************)
BASE_URL == [scheme |-> "https", host |-> "api.docbase.io"]

\* percent-encoding of one token in the path, the query and the fragment
\* (of the tokens of this model only the space is in the encode sets)
UrlEncode(c) == IF c = " " THEN "%20" ELSE c

IsSingleDot(buffer) == buffer \in {<<".">>, <<"%2e">>}

IsDoubleDot(buffer) ==
    buffer \in {<<".", ".">>, <<".", "%2e">>, <<"%2e", ".">>, <<"%2e", "%2e">>}

\* "shorten a url's path" (the scheme is not file): drop the last segment
Shorten(path) == IF path = <<>> THEN path ELSE SubSeq(path, 1, Len(path) - 1)

\* leading and trailing spaces of the input are removed before parsing
RECURSIVE TrimSpaces(_)
TrimSpaces(s) ==
    IF s # <<>> /\ s[Len(s)] = " " THEN TrimSpaces(SubSeq(s, 1, Len(s) - 1))
    ELSE IF s # <<>> /\ Head(s) = " " THEN TrimSpaces(Tail(s))
    ELSE s

\* fragment state: everything up to the end of the input
RECURSIVE FragmentState(_)
FragmentState(rest) ==
    IF rest = <<>> THEN <<>>
    ELSE <<UrlEncode(Head(rest))>> \o FragmentState(Tail(rest))

\* query state: everything up to "#" or the end of the input
RECURSIVE QueryState(_, _)
QueryState(rest, buffer) ==
    IF rest = <<>> THEN [query |-> Some(buffer), fragment |-> None]
    ELSE IF Head(rest) = "#"
         THEN [query |-> Some(buffer), fragment |-> Some(FragmentState(Tail(rest)))]
    ELSE QueryState(Tail(rest), Append(buffer, UrlEncode(Head(rest))))

\* path state, for a special scheme ("\" counts as "/")
RECURSIVE PathState(_, _, _)
PathState(rest, buffer, path) ==
    LET atEnd == rest = <<>>
        c     == IF atEnd THEN "EOF" ELSE Head(rest)
        slash == c \in {"/", "\\"}
    IN  IF atEnd \/ c \in {"/", "\\", "?", "#"}
        THEN LET path1 ==
                     IF IsDoubleDot(buffer)
                     THEN (IF slash THEN Shorten(path)
                           ELSE Append(Shorten(path), <<>>))
                     ELSE IF IsSingleDot(buffer)
                     THEN (IF slash THEN path ELSE Append(path, <<>>))
                     ELSE Append(path, buffer)
             IN  IF slash THEN PathState(Tail(rest), <<>>, path1)
                 ELSE IF c = "?"
                 THEN LET q == QueryState(Tail(rest), <<>>)
                      IN  [path |-> path1, query |-> q.query, fragment |-> q.fragment]
                 ELSE IF c = "#"
                 THEN [path |-> path1, query |-> None,
                       fragment |-> Some(FragmentState(Tail(rest)))]
                 ELSE [path |-> path1, query |-> None, fragment |-> None]
        ELSE PathState(Tail(rest), Append(buffer, UrlEncode(c)), path)

\* new URL(input, base) for an input "/x..." (x not a slash)
NewURL(input, base) ==
    LET p == PathState(Tail(TrimSpaces(input)), <<>>, <<>>)
    IN  [scheme |-> base.scheme, host |-> base.host,
         path |-> p.path, query |-> p.query, fragment |-> p.fragment]

(***************************************************************************)
(* URLSearchParams: application/x-www-form-urlencoded.                     *)
(***************************************************************************)
FormEncodeTable ==
    <<<<" ", "+">>, <<"&", "%26">>, <<"=", "%3D">>, <<"+", "%2B">>,
      <<"#", "%23">>, <<"?", "%3F">>, <<"/", "%2F">>>>

\* the serializer's byte encoding of one token (letters, digits, "*", "-",
\* "." and "_" are left alone)
FormEncode(c) ==
    IF \E i \in 1..Len(FormEncodeTable) : FormEncodeTable[i][1] = c
    THEN FormEncodeTable[CHOOSE i \in 1..Len(FormEncodeTable) :
                             FormEncodeTable[i][1] = c][2]
    ELSE c

\* the parser's decoding of one token
FormDecode(c) ==
    IF \E i \in 1..Len(FormEncodeTable) : FormEncodeTable[i][2] = c
    THEN FormEncodeTable[CHOOSE i \in 1..Len(FormEncodeTable) :
                             FormEncodeTable[i][2] = c][1]
    ELSE c

FormEncodeString(s) == [i \in 1..Len(s) |-> FormEncode(s[i])]
FormDecodeString(s) == [i \in 1..Len(s) |-> FormDecode(s[i])]

\* the urlencoded serializer: name=value pairs joined by "&"
RECURSIVE FormSerialize(_)
FormSerialize(list) ==
    IF list = <<>> THEN <<>>
    ELSE LET one == FormEncodeString(list[1][1]) \o <<"=">>
                    \o FormEncodeString(list[1][2])
         IN  IF Len(list) = 1 THEN one
             ELSE one \o <<"&">> \o FormSerialize(Tail(list))

\* position of the first token c in s, or 0
IndexOf(s, c) ==
    IF \E i \in 1..Len(s) : s[i] = c
    THEN CHOOSE i \in 1..Len(s) : s[i] = c /\ \A j \in 1..(i - 1) : s[j] # c
    ELSE 0

\* one "name=value" piece of a query string, decoded
FormPair(piece) ==
    LET i == IndexOf(piece, "=")
    IN  IF i = 0 THEN <<FormDecodeString(piece), <<>>>>
        ELSE <<FormDecodeString(SubSeq(piece, 1, i - 1)),
               FormDecodeString(SubSeq(piece, i + 1, Len(piece)))>>

\* the urlencoded parser: split on "&", skip empty pieces, split at first "="
RECURSIVE FormParse(_)
FormParse(q) ==
    IF q = <<>> THEN <<>>
    ELSE LET i     == IndexOf(q, "&")
             piece == IF i = 0 THEN q ELSE SubSeq(q, 1, i - 1)
             rest  == IF i = 0 THEN <<>> ELSE SubSeq(q, i + 1, Len(q))
         IN  (IF piece = <<>> THEN <<>> ELSE <<FormPair(piece)>>) \o FormParse(rest)

\* url.searchParams.append(name, value): the list parsed from the URL's
\* query gets one more pair and the query is set to its serialization
SearchParamsAppend(url, name, value) ==
    LET list == IF url.query = None THEN <<>> ELSE FormParse(url.query[1])
    IN  [url EXCEPT !.query = Some(FormSerialize(Append(list, <<name, value>>)))]

\* fetch(url, { headers }): a GET of the URL without its fragment
Fetch(url, headers) ==
    [method |-> "GET", scheme |-> url.scheme, host |-> url.host,
     path |-> url.path, query |-> url.query, headers |-> headers]

(***************************************************************************)
(* JavaScript values.                                                      *)
(***************************************************************************)
Undef == [t |-> "undefined"]
JNull == [t |-> "null"]
JNum(n) == [t |-> "num", n |-> n]
JStr(str) == [t |-> "str", s |-> str]
JArr(seq) == [t |-> "arr", a |-> seq]
\* an object parsed from JSON: f maps its keys to their values
JObj(fields) == [t |-> "obj", f |-> fields]

\* x.k throws a TypeError when x is undefined or null
Nullish(x) == x.t \in {"undefined", "null"}

\* x.k for an x that is neither undefined nor null
Prop(x, k) == IF x.t = "obj" /\ k \in DOMAIN x.f THEN x.f[k] ELSE Undef

\* JSON.stringify of an object built by a handler, given as its
\* <<key, value>> entries in construction order: an entry whose value is
\* undefined is left out, the others keep their order.  (The indentation
\* of the text is not modelled.)
StringifyObject(entries) ==
    [t |-> "obj", e |-> SelectSeq(entries, LAMBDA en : en[2] # Undef)]

\* JSON.stringify of an array of values: undefined becomes null
StringifyArray(seq) ==
    JArr([i \in 1..Len(seq) |-> IF seq[i] = Undef THEN JNull ELSE seq[i]])

\* JSON.parse of a handler's text, then `.k`
TextField(text, k) ==
    IF \E i \in 1..Len(text.e) : text.e[i][1] = k
    THEN text.e[CHOOSE i \in 1..Len(text.e) : text.e[i][1] = k][2]
    ELSE Undef

TextKeys(text) == [i \in 1..Len(text.e) |-> text.e[i][1]]

(***************************************************************************)
(* Errors and handler outcomes.                                            *)
(***************************************************************************)
\* ApiError with the status left out of the message
ApiErrorNoStatus(r) ==
    [isError |-> TRUE, name |-> "Error",
     message |-> <<"API request error: ">> \o r.statusText]

\* new Error(`<prefix>: ${response.status} ${response.statusText}`); the
\* source's Japanese prefix ("API request error") is written in English
ApiError(r) ==
    [isError |-> TRUE, name |-> "Error",
     message |-> <<"API request error: ">> \o NumberToString(r.status)
                 \o <<" ">> \o r.statusText]

\* what the runtime throws on x.k or x.map(...) for an unfit x
TypeError == [isError |-> TRUE, name |-> "TypeError",
              message |-> <<"Cannot read properties">>]

\* what fetch rejects with when the request fails
FetchFailed == [isError |-> TRUE, name |-> "TypeError",
                message |-> <<"fetch failed">>]

\* what response.json() rejects with when the body is not JSON
SyntaxError == [isError |-> TRUE, name |-> "SyntaxError",
                message |-> <<"Unexpected token">>]

\* catch (error) { throw error instanceof Error ? error : new Error(...) }
\* (the source's Japanese message, "an unknown error occurred", in English)
Rethrow(error) ==
    IF error.isError THEN error
    ELSE [isError |-> TRUE, name |-> "Error",
          message |-> <<"unknown error">>]

Pending == [kind |-> "none"]
Thrown(error) == [kind |-> "error", error |-> error]
\* return { content: [{ type: 'text', text: JSON.stringify(...) }] }
Content(text) == [kind |-> "content",
                  content |-> <<[type |-> "text", text |-> text]>>]

\* response.ok
Ok(status) == 200 <= status /\ status <= 299

(***************************************************************************)
(* createDocBaseClient.                                                    *)
(***************************************************************************)
DefaultPage == 1
DefaultPerPage == 20
PerPageLimit == 100

DOCBASE_TOKEN == env.token
DOCBASE_DOMAIN == env.domain

\* a template literal's `${v}` for an optional string v
Interpolate(v) == IF v = None THEN <<"undefined">> ELSE v[1]

headers ==
    ("X-DocBaseToken" :> Interpolate(DOCBASE_TOKEN))
        @@ ("Content-Type" :> <<"application/json">>)

\* client.searchMemos up to its fetch: the request it issues
searchMemosRequest(query, page, perPage) ==
    LET p    == IF page = None THEN DefaultPage ELSE page[1]
        pp   == IF perPage = None THEN DefaultPerPage ELSE perPage[1]
        url0 == NewURL(<<"/", "teams", "/">> \o Interpolate(DOCBASE_DOMAIN)
                           \o <<"/", "posts">>, BASE_URL)
        url1 == SearchParamsAppend(url0, <<"q">>, query)
        url2 == SearchParamsAppend(url1, <<"page">>, NumberToString(p))
        url3 == SearchParamsAppend(url2, <<"per_page">>, NumberToString(pp))
    IN  Fetch(url3, headers)

\* client.getMemo up to its fetch: the request it issues
getMemoRequest(id) ==
    Fetch(NewURL(<<"/", "teams", "/">> \o Interpolate(DOCBASE_DOMAIN)
                     \o <<"/", "posts", "/">> \o id, BASE_URL),
          headers)

(***************************************************************************)
(* The searchMemos handler.                                                *)
(***************************************************************************)
\* limitedPerPage with the clamp forgotten
limitedPerPageUnclamped(perPage) == perPage

\* const limitedPerPage = perPage && perPage > 100 ? 100 : perPage
limitedPerPage(perPage) ==
    IF perPage # None /\ perPage[1] # 0 /\ perPage[1] > PerPageLimit
    THEN Some(PerPageLimit)
    ELSE perPage

\* does the projection of a parsed search answer throw?
searchThrows(res) ==
    \/ Nullish(res)
    \/ Prop(res, "posts").t # "arr"
    \/ \E i \in 1..Len(Prop(res, "posts").a) : Nullish(Prop(res, "posts").a[i])
    \/ Nullish(Prop(res, "meta"))

\* searchMemosOf with title and url taken from each other's field
searchMemosOfSwapped(res) ==
    LET posts == Prop(res, "posts").a
    IN  [i \in 1..Len(posts) |->
            <<<<"id", Prop(posts[i], "id")>>,
              <<"title", Prop(posts[i], "url")>>,
              <<"url", Prop(posts[i], "title")>>>>]

\* result.posts.map((post) => ({ id, title, url }))
searchMemosOf(res) ==
    LET posts == Prop(res, "posts").a
    IN  [i \in 1..Len(posts) |->
            <<<<"id", Prop(posts[i], "id")>>,
              <<"title", Prop(posts[i], "title")>>,
              <<"url", Prop(posts[i], "url")>>>>]

\* JSON.stringify({ memos, total, nextPage, previousPage }, null, 2)
searchText(res) ==
    LET memos == searchMemosOf(res)
        meta  == Prop(res, "meta")
    IN  StringifyObject(
            <<<<"memos", JArr([i \in 1..Len(memos) |-> StringifyObject(memos[i])])>>,
              <<"total", Prop(meta, "total")>>,
              <<"nextPage", Prop(meta, "next_page")>>,
              <<"previousPage", Prop(meta, "previous_page")>>>>)

\* the handler from the parsed answer on
searchOutcome(res) ==
    IF searchThrows(res) THEN Thrown(Rethrow(TypeError))
    ELSE Content(searchText(res))

(***************************************************************************)
(* The getMemoDetail handler.                                              *)
(***************************************************************************)
\* does xs.map((x) => x.name) throw?
namesThrow(xs) ==
    \/ xs.t # "arr"
    \/ \E i \in 1..Len(xs.a) : Nullish(xs.a[i])

\* namesOf mapping each item to its id
namesOfIds(xs) == [i \in 1..Len(xs.a) |-> Prop(xs.a[i], "id")]

\* xs.map((x) => x.name)
namesOf(xs) == [i \in 1..Len(xs.a) |-> Prop(xs.a[i], "name")]

detailThrows(memo) ==
    \/ Nullish(memo)
    \/ namesThrow(Prop(memo, "tags"))
    \/ Nullish(Prop(memo, "user"))
    \/ namesThrow(Prop(memo, "groups"))

\* JSON.stringify({ id, title, body, url, createdAt, ... }, null, 2)
detailText(memo) ==
    StringifyObject(
        <<<<"id", Prop(memo, "id")>>,
          <<"title", Prop(memo, "title")>>,
          <<"body", Prop(memo, "body")>>,
          <<"url", Prop(memo, "url")>>,
          <<"createdAt", Prop(memo, "created_at")>>,
          <<"updatedAt", Prop(memo, "updated_at")>>,
          <<"tags", StringifyArray(namesOf(Prop(memo, "tags")))>>,
          <<"user", Prop(Prop(memo, "user"), "name")>>,
          <<"groups", StringifyArray(namesOf(Prop(memo, "groups")))>>>>)

detailOutcome(memo) ==
    IF detailThrows(memo) THEN Thrown(Rethrow(TypeError))
    ELSE Content(detailText(memo))

(***************************************************************************)
(* Inputs: what the environment, the host and the upstream may supply.     *)
(***************************************************************************)
Tokens == {None, Some(<<>>), Some(<<"secret">>)}
Domains == {None, Some(<<>>), Some(<<"acme">>)}

GoodEnv == [token |-> Some(<<"secret">>), domain |-> Some(<<"acme">>)]

\* --- the sets of the concurrent specification (few inputs, several calls)
SmallSearchArgs == {[query |-> <<"test">>, page |-> None, perPage |-> None]}
SmallDetailArgs == {[id |-> <<"7">>]}

SmallResponses ==
    {[status |-> 200, statusText |-> <<"OK">>],
     [status |-> 404, statusText |-> <<"Not Found">>]}

PostA == JObj([id |-> JNum(1), title |-> JStr("a"), url |-> JStr("u1"),
               body |-> JStr("text")])
PostB == JObj([id |-> JNum(2), title |-> JStr("b"), url |-> JStr("u2")])
PostNoTitle == JObj([id |-> JNum(3), url |-> JStr("u3")])

MetaFirst == JObj([total |-> JNum(2), next_page |-> JNum(2), previous_page |-> JNull])
MetaLast == JObj([total |-> JNum(5), next_page |-> JNull, previous_page |-> JNum(1)])
MetaOnly == JObj([total |-> JNum(0), next_page |-> JNull, previous_page |-> JNull])

TagA == JObj([name |-> JStr("a")])
TagB == JObj([name |-> JStr("b"), id |-> JNum(9)])
TagNoName == JObj([id |-> JNum(8)])
GroupG == JObj([name |-> JStr("g"), id |-> JNum(4)])
GroupH == JObj([name |-> JStr("h")])
UserU == JObj([name |-> JStr("u"), id |-> JNum(6)])

\* the scalar fields of a post record of the upstream
MemoFields ==
    [id |-> JNum(7), title |-> JStr("t"), body |-> JStr("text"),
     url |-> JStr("u7"), created_at |-> JStr("d1"), updated_at |-> JStr("d2"),
     scope |-> JStr("everyone")]

DetailBody(tags, user, groups) ==
    JObj(MemoFields @@ [tags |-> tags, user |-> user, groups |-> groups])

GoodSearchBody == JObj([posts |-> JArr(<<PostA>>), meta |-> MetaFirst])
GoodDetailBody == DetailBody(JArr(<<TagA, TagB>>), UserU, JArr(<<GroupG>>))

SmallBodies == {GoodSearchBody, GoodDetailBody}

\* --- the sets of the single-call specifications (many inputs, one call)
Queries ==
    {<<"test">>, <<"a", " ", "b">>, <<"x", "&", "per_page", "=", "5", "0", "0">>}
Pages == {None, Some(0), Some(3)}
PerPages == {None} \cup {Some(n) : n \in (-1..1) \cup (99..MaxPerPage)}
WideSearchArgs == [query : Queries, page : Pages, perPage : PerPages]

WideResponses ==
    {[status |-> st, statusText |-> <<"text">>] : st \in {200, 201, 299, 300, 404, 500}}
    \cup {[status |-> 200, statusText |-> <<>>], [status |-> 502, statusText |-> <<>>]}

SeqsUpTo(S, n) == UNION {[1..k -> S] : k \in 0..n}

Metas == {MetaFirst, MetaLast, MetaOnly}
PostSeqs == SeqsUpTo({PostA, PostB, PostNoTitle, JNull}, MaxPosts)

WideSearchBodies ==
    {JObj([posts |-> JArr(ps), meta |-> m]) : ps \in PostSeqs, m \in Metas}
    \cup {JObj([posts |-> JArr(ps)]) : ps \in PostSeqs}
    \cup {JObj([meta |-> m]) : m \in Metas}
    \cup {JNull, JObj([posts |-> JStr("none"), meta |-> MetaOnly])}

DetailArgs == {[id |-> <<"7">>], [id |-> <<"1", "2">>]}

TagSeqs == SeqsUpTo({TagA, TagB, TagNoName, JNull}, MaxNames)
GroupSeqs == SeqsUpTo({GroupG, GroupH}, MaxNames)

WideDetailBodies ==
    {DetailBody(JArr(ts), u, JArr(gs)) :
        ts \in TagSeqs, u \in {UserU, JNull}, gs \in GroupSeqs}
    \cup {JObj(MemoFields @@ [tags |-> JArr(ts), groups |-> JArr(<<>>)]) : ts \in TagSeqs}
    \cup {JObj(MemoFields), JNull,
          JObj([tags |-> JArr(<<TagA>>), user |-> UserU, groups |-> JArr(<<GroupG>>)])}

\* an id is made of at most MaxIdLen of these pieces
IdPieces ==
    {<<"7">>, <<"evil">>, <<"/">>, <<".">>, <<".", ".", "/">>,
     <<"%2e", "%2e", "\\">>, <<"?">>, <<"#">>, <<" ">>}

RECURSIVE Flatten(_)
Flatten(ss) == IF ss = <<>> THEN <<>> ELSE Head(ss) \o Flatten(Tail(ss))

PathArgs == {[id |-> Flatten(ps)] : ps \in SeqsUpTo(IdPieces, MaxIdLen)}

(***************************************************************************)
(* Startup: the module's top-level code.                                   *)
(***************************************************************************)
NoCalls ==
    /\ pc = [c \in Calls |-> "idle"]
    /\ tool = [c \in Calls |-> ""]
    /\ args = [c \in Calls |-> None]
    /\ sent = [c \in Calls |-> <<>>]
    /\ answers = [c \in Calls |-> FALSE]
    /\ resp = [c \in Calls |-> None]
    /\ body = [c \in Calls |-> None]
    /\ result = [c \in Calls |-> Pending]
    /\ afterFailure = [c \in Calls |-> FALSE]

Init ==
    /\ env \in [token : Tokens, domain : Domains]
    /\ proc = "checkToken"
    /\ exitCode = None
    /\ server = FALSE
    /\ tools = {}
    /\ connected = FALSE
    /\ NoCalls

\* process.exit(code)
Exit(code) == proc' = "exited" /\ exitCode' = Some(code)

\* if (!DOCBASE_TOKEN) { console.error(...); process.exit(1); }
CheckToken ==
    /\ proc = "checkToken"
    /\ IF Falsy(DOCBASE_TOKEN) THEN Exit(1)
       ELSE proc' = "checkDomain" /\ UNCHANGED exitCode
    /\ UNCHANGED <<env, server, tools, connected, callVars>>

\* CheckDomain that reports the missing variable and goes on
CheckDomainNoExit ==
    /\ proc = "checkDomain"
    /\ proc' = "createServer"
    /\ UNCHANGED <<env, exitCode, server, tools, connected, callVars>>

\* if (!DOCBASE_DOMAIN) { console.error(...); process.exit(1); }
CheckDomain ==
    /\ proc = "checkDomain"
    /\ IF Falsy(DOCBASE_DOMAIN) THEN Exit(1)
       ELSE proc' = "createServer" /\ UNCHANGED exitCode
    /\ UNCHANGED <<env, server, tools, connected, callVars>>

\* const server = new McpServer({...})
CreateServer ==
    /\ proc = "createServer"
    /\ server' = TRUE
    /\ proc' = "registerSearch"
    /\ UNCHANGED <<env, exitCode, tools, connected, callVars>>

\* server.tool('searchMemos', ...)
RegisterSearch ==
    /\ proc = "registerSearch"
    /\ tools' = tools \cup {"searchMemos"}
    /\ proc' = "registerDetail"
    /\ UNCHANGED <<env, exitCode, server, connected, callVars>>

\* server.tool('getMemoDetail', ...)
RegisterDetail ==
    /\ proc = "registerDetail"
    /\ tools' = tools \cup {"getMemoDetail"}
    /\ proc' = "main"
    /\ UNCHANGED <<env, exitCode, server, connected, callVars>>

\* main(): await server.connect(transport) resolves
Connect ==
    /\ proc = "main"
    /\ connected' = TRUE
    /\ proc' = "serving"
    /\ UNCHANGED <<env, exitCode, server, tools, callVars>>

\* main().catch: server.connect rejects, process.exit(1)
ConnectFails ==
    /\ proc = "main"
    /\ Exit(1)
    /\ UNCHANGED <<env, server, tools, connected, callVars>>

(***************************************************************************)
(* Tool calls.  The host numbers its calls in the order it makes them.     *)
(***************************************************************************)
Failed(c) == pc[c] = "done" /\ result[c].kind = "error"

\* the host may call a registered tool of a serving process
CanInvoke(c, name) ==
    /\ proc = "serving"
    /\ name \in tools
    /\ pc[c] = "idle"
    /\ \A d \in Calls : d < c => pc[d] # "idle"

\* the handler starts: its synchronous part runs up to `await fetch`
Start(c, name, a, request, w) ==
    /\ tool' = [tool EXCEPT ![c] = name]
    /\ args' = [args EXCEPT ![c] = Some(a)]
    /\ sent' = [sent EXCEPT ![c] = Append(@, request)]
    /\ answers' = [answers EXCEPT ![c] = w]
    /\ afterFailure' = [afterFailure EXCEPT ![c] = \E d \in Calls : Failed(d)]
    /\ pc' = [pc EXCEPT ![c] = "fetch"]
    /\ UNCHANGED <<resp, body, result, procVars>>

\* the handler ends: it returns a result or throws
Finish(c, outcome) ==
    /\ result' = [result EXCEPT ![c] = outcome]
    /\ pc' = [pc EXCEPT ![c] = "done"]

\* FetchResolved where an upstream error ends the process
FetchResolvedExits(c, r) ==
    /\ resp' = [resp EXCEPT ![c] = Some(r)]
    /\ IF Ok(r.status)
       THEN pc' = [pc EXCEPT ![c] = "json"] /\ UNCHANGED <<result, proc, exitCode>>
       ELSE Finish(c, Thrown(Rethrow(ApiError(r)))) /\ Exit(1)
    /\ UNCHANGED <<tool, args, sent, answers, body, afterFailure,
                   env, server, tools, connected>>

\* FetchResolved where an upstream error is retried once
FetchResolvedRetries(c, r) ==
    /\ resp' = [resp EXCEPT ![c] = Some(r)]
    /\ IF Ok(r.status)
       THEN pc' = [pc EXCEPT ![c] = "json"] /\ UNCHANGED <<result, sent>>
       ELSE IF Len(sent[c]) < 2
       THEN sent' = [sent EXCEPT ![c] = Append(@, @[1])] /\ UNCHANGED <<pc, result>>
       ELSE Finish(c, Thrown(Rethrow(ApiError(r)))) /\ UNCHANGED sent
    /\ UNCHANGED <<tool, args, answers, body, afterFailure, procVars>>

\* `await fetch(url, { headers })` resolves with a response
FetchResolved(c, r) ==
    /\ resp' = [resp EXCEPT ![c] = Some(r)]
    /\ IF Ok(r.status)
       THEN pc' = [pc EXCEPT ![c] = "json"] /\ UNCHANGED result
       ELSE Finish(c, Thrown(Rethrow(ApiError(r))))
    /\ UNCHANGED <<tool, args, sent, answers, body, afterFailure, procVars>>

\* searchMemos handler, lines 95-101
InvokeSearch(c, Args) ==
    /\ CanInvoke(c, "searchMemos")
    /\ \E a \in Args, w \in BOOLEAN :
          Start(c, "searchMemos", a,
                searchMemosRequest(a.query, a.page, limitedPerPage(a.perPage)), w)

\* client.searchMemos, lines 39-45
SearchFetchResolves(c, Responses) ==
    /\ pc[c] = "fetch" /\ tool[c] = "searchMemos" /\ answers[c]
    /\ \E r \in Responses : FetchResolved(c, r)

\* SearchFetchRejects with a timeout: it fires whether or not the upstream answers
SearchFetchTimesOut(c) ==
    /\ pc[c] = "fetch" /\ tool[c] = "searchMemos"
    /\ Finish(c, Thrown(Rethrow(FetchFailed)))
    /\ UNCHANGED <<tool, args, sent, answers, resp, body, afterFailure, procVars>>

\* client.searchMemos, line 39: fetch rejects
SearchFetchRejects(c) ==
    /\ pc[c] = "fetch" /\ tool[c] = "searchMemos" /\ answers[c]
    /\ Finish(c, Thrown(Rethrow(FetchFailed)))
    /\ UNCHANGED <<tool, args, sent, answers, resp, body, afterFailure, procVars>>

\* SearchJsonResolves where the parsed answer is kept in a variable all
\* calls share: a call reads the answer another call stored last
SearchJsonResolvesShared(c, Bodies) ==
    /\ pc[c] = "json" /\ tool[c] = "searchMemos"
    /\ \E b \in Bodies :
          LET others == {d \in Calls : d # c /\ body[d] # None}
              read   == IF others = {} THEN b
                        ELSE body[CHOOSE d \in others : TRUE][1]
          IN  /\ body' = [body EXCEPT ![c] = Some(b)]
              /\ Finish(c, searchOutcome(read))
    /\ UNCHANGED <<tool, args, sent, answers, resp, afterFailure, procVars>>

\* client.searchMemos line 47 and the handler's lines 103-126
SearchJsonResolves(c, Bodies) ==
    /\ pc[c] = "json" /\ tool[c] = "searchMemos"
    /\ \E b \in Bodies :
          /\ body' = [body EXCEPT ![c] = Some(b)]
          /\ Finish(c, searchOutcome(b))
    /\ UNCHANGED <<tool, args, sent, answers, resp, afterFailure, procVars>>

\* client.searchMemos line 47: response.json() rejects
SearchJsonRejects(c) ==
    /\ pc[c] = "json" /\ tool[c] = "searchMemos"
    /\ Finish(c, Thrown(Rethrow(SyntaxError)))
    /\ UNCHANGED <<tool, args, sent, answers, resp, body, afterFailure, procVars>>

\* getMemoDetail handler, lines 142-145
InvokeDetail(c, Args) ==
    /\ CanInvoke(c, "getMemoDetail")
    /\ \E a \in Args, w \in BOOLEAN :
          Start(c, "getMemoDetail", a, getMemoRequest(a.id), w)

\* client.getMemo, lines 53-59
DetailFetchResolves(c, Responses) ==
    /\ pc[c] = "fetch" /\ tool[c] = "getMemoDetail" /\ answers[c]
    /\ \E r \in Responses : FetchResolved(c, r)

\* client.getMemo, line 53: fetch rejects
DetailFetchRejects(c) ==
    /\ pc[c] = "fetch" /\ tool[c] = "getMemoDetail" /\ answers[c]
    /\ Finish(c, Thrown(Rethrow(FetchFailed)))
    /\ UNCHANGED <<tool, args, sent, answers, resp, body, afterFailure, procVars>>

\* client.getMemo line 61 and the handler's lines 147-168
DetailJsonResolves(c, Bodies) ==
    /\ pc[c] = "json" /\ tool[c] = "getMemoDetail"
    /\ \E b \in Bodies :
          /\ body' = [body EXCEPT ![c] = Some(b)]
          /\ Finish(c, detailOutcome(b))
    /\ UNCHANGED <<tool, args, sent, answers, resp, afterFailure, procVars>>

\* client.getMemo line 61: response.json() rejects
DetailJsonRejects(c) ==
    /\ pc[c] = "json" /\ tool[c] = "getMemoDetail"
    /\ Finish(c, Thrown(Rethrow(SyntaxError)))
    /\ UNCHANGED <<tool, args, sent, answers, resp, body, afterFailure, procVars>>

(***************************************************************************)
(* Specifications.                                                         *)
(***************************************************************************)
Startup ==
    \/ CheckToken
    \/ CheckDomain
    \/ CreateServer
    \/ RegisterSearch
    \/ RegisterDetail
    \/ Connect
    \/ ConnectFails

SearchStep(c) ==
    \/ InvokeSearch(c, SmallSearchArgs)
    \/ SearchFetchResolves(c, SmallResponses)
    \/ SearchFetchRejects(c)
    \/ SearchJsonResolves(c, SmallBodies)
    \/ SearchJsonRejects(c)

DetailStep(c) ==
    \/ InvokeDetail(c, SmallDetailArgs)
    \/ DetailFetchResolves(c, SmallResponses)
    \/ DetailFetchRejects(c)
    \/ DetailJsonResolves(c, SmallBodies)
    \/ DetailJsonRejects(c)

Next == Startup \/ \E c \in Calls : SearchStep(c) \/ DetailStep(c)

\* the whole program: startup from any environment, then concurrent calls
Spec == Init /\ [][Next]_vars

\* the state once startup has succeeded
InitServing ==
    /\ env = GoodEnv
    /\ proc = "serving"
    /\ exitCode = None
    /\ server = TRUE
    /\ tools = {"searchMemos", "getMemoDetail"}
    /\ connected = TRUE
    /\ NoCalls

\* one searchMemos call over many parameters and answers
NextSearch ==
    \/ InvokeSearch(1, WideSearchArgs)
    \/ SearchFetchResolves(1, WideResponses)
    \/ SearchFetchRejects(1)
    \/ SearchJsonResolves(1, WideSearchBodies)
    \/ SearchJsonRejects(1)

SpecSearch == InitServing /\ [][NextSearch]_vars

\* one getMemoDetail call over many answers
NextDetail ==
    \/ InvokeDetail(1, DetailArgs)
    \/ DetailFetchResolves(1, WideResponses)
    \/ DetailFetchRejects(1)
    \/ DetailJsonResolves(1, WideDetailBodies)
    \/ DetailJsonRejects(1)

SpecDetail == InitServing /\ [][NextDetail]_vars

\* one getMemoDetail call over many ids
NextPath ==
    \/ InvokeDetail(1, PathArgs)
    \/ DetailFetchResolves(1, SmallResponses)
    \/ DetailFetchRejects(1)
    \/ DetailJsonResolves(1, SmallBodies)
    \/ DetailJsonRejects(1)

SpecPath == InitServing /\ [][NextPath]_vars

\* the whole program with fewer calls, where every request the upstream
\* answers is settled and every answered body is read
FewCalls == 1..MaxFewCalls

NextLive == Startup \/ \E c \in FewCalls : SearchStep(c) \/ DetailStep(c)

Fairness ==
    \A c \in FewCalls :
        /\ WF_vars(SearchFetchResolves(c, SmallResponses) \/ SearchFetchRejects(c))
        /\ WF_vars(SearchJsonResolves(c, SmallBodies) \/ SearchJsonRejects(c))
        /\ WF_vars(DetailFetchResolves(c, SmallResponses) \/ DetailFetchRejects(c))
        /\ WF_vars(DetailJsonResolves(c, SmallBodies) \/ DetailJsonRejects(c))

SpecLive == Init /\ [][NextLive]_vars /\ Fairness

\* a few calls of both tools over many response statuses
NextStatus ==
    \E c \in FewCalls :
        \/ InvokeSearch(c, SmallSearchArgs)
        \/ SearchFetchResolves(c, WideResponses)
        \/ SearchFetchRejects(c)
        \/ SearchJsonResolves(c, SmallBodies)
        \/ SearchJsonRejects(c)
        \/ InvokeDetail(c, SmallDetailArgs)
        \/ DetailFetchResolves(c, WideResponses)
        \/ DetailFetchRejects(c)
        \/ DetailJsonResolves(c, SmallBodies)
        \/ DetailJsonRejects(c)

SpecStatus == InitServing /\ [][NextStatus]_vars

(***************************************************************************)
(* What the claims are stated with: the upstream's reading of a request    *)
(* and the host's reading of a result.                                     *)
(***************************************************************************)
DigitValue(ch) == CHOOSE d \in 0..9 : DigitChars[d + 1] = ch

RECURSIVE ParseNat(_)
ParseNat(str) ==
    IF Len(str) = 1 THEN DigitValue(str[1])
    ELSE 10 * ParseNat(SubSeq(str, 1, Len(str) - 1)) + DigitValue(str[Len(str)])

\* the integer a decimal string denotes
ParseInt(str) == IF Head(str) = "-" THEN 0 - ParseNat(Tail(str)) ELSE ParseNat(str)

\* the values a request's query string carries under a name, in order
QueryValues(req, name) ==
    LET list == IF req.query = None THEN <<>> ELSE FormParse(req.query[1])
        hits == SelectSeq(list, LAMBDA pr : pr[1] = name)
    IN  [i \in 1..Len(hits) |-> hits[i][2]]

\* a URL path as text: "/" before each segment
RECURSIVE PathString(_)
PathString(path) ==
    IF path = <<>> THEN <<>>
    ELSE <<"/">> \o Head(path) \o PathString(Tail(path))

Invoked(c) == pc[c] # "idle"
Done(c) == pc[c] = "done"
IsSearch(c) == Invoked(c) /\ tool[c] = "searchMemos"
IsDetail(c) == Invoked(c) /\ tool[c] = "getMemoDetail"

HasKeys(x, keys) == x.t = "obj" /\ keys \subseteq DOMAIN x.f

\* a search answer of the documented shape
WellFormedSearch(b) ==
    /\ HasKeys(b, {"posts", "meta"})
    /\ b.f.posts.t = "arr"
    /\ \A i \in 1..Len(b.f.posts.a) : HasKeys(b.f.posts.a[i], {"id", "title", "url"})
    /\ HasKeys(b.f.meta, {"total", "next_page", "previous_page"})

NamedItems(x) ==
    /\ x.t = "arr"
    /\ \A i \in 1..Len(x.a) : HasKeys(x.a[i], {"name"})

\* a detail answer of the documented shape
WellFormedDetail(b) ==
    /\ HasKeys(b, {"id", "title", "body", "url", "created_at", "updated_at",
                   "tags", "user", "groups"})
    /\ NamedItems(b.f.tags)
    /\ NamedItems(b.f.groups)
    /\ HasKeys(b.f.user, {"name"})

\* the text of the one content block of a successful result
TextOf(c) == result[c].content[1].text

Succeeded(c) ==
    /\ Done(c)
    /\ result[c].kind = "content"
    /\ Len(result[c].content) = 1
    /\ result[c].content[1].type = "text"

\* the upstream answered call c with a 2xx status and a body of the
\* documented shape for c's tool
GoodAnswer(c) ==
    /\ resp[c] # None /\ Ok(resp[c][1].status)
    /\ body[c] # None
    /\ IF tool[c] = "searchMemos" THEN WellFormedSearch(body[c][1])
       ELSE WellFormedDetail(body[c][1])

SameInputs(c, d) ==
    /\ tool[c] = tool[d] /\ args[c] = args[d]
    /\ resp[c] = resp[d] /\ body[c] = body[d]

(***************************************************************************)
(* C1.  As claimed: the per_page a search request carries is 100 when the  *)
(* supplied perPage exceeds 100, and otherwise is the supplied value, also *)
(* when none was supplied (the request then carries no supplied value).    *)
(***************************************************************************)
C1_PerPageAsClaimed ==
    \A c \in Calls : IsSearch(c) =>
        \A i \in 1..Len(sent[c]) :
            LET supplied == args[c][1].perPage
                carried  == QueryValues(sent[c][i], <<"per_page">>)
            IN  IF supplied # None /\ supplied[1] > 100
                THEN carried = <<NumberToString(100)>>
                ELSE carried = [k \in 1..Len(supplied) |-> NumberToString(supplied[k])]

(***************************************************************************)
(* C1, amended.  Every search request carries exactly one per_page: 100    *)
(* when the supplied perPage exceeds 100, the supplied value when it is at *)
(* most 100 (0 and negative values included), and 20 when none was         *)
(* supplied; so no search request carries a per_page above 100.            *)
(***************************************************************************)
C1_PerPageClamped ==
    \A c \in Calls : IsSearch(c) =>
        \A i \in 1..Len(sent[c]) :
            LET supplied == args[c][1].perPage
                carried  == QueryValues(sent[c][i], <<"per_page">>)
            IN  /\ Len(carried) = 1
                /\ ParseInt(carried[1]) <= 100
                /\ carried[1] =
                       IF supplied = None THEN NumberToString(20)
                       ELSE IF supplied[1] > 100 THEN NumberToString(100)
                       ELSE NumberToString(supplied[1])

\* a request was sent for a perPage above 100 and carries per_page=100
C1_Witness ==
    \E c \in Calls :
        /\ IsSearch(c)
        /\ args[c][1].perPage # None /\ args[c][1].perPage[1] > 100
        /\ QueryValues(sent[c][1], <<"per_page">>) = <<<<"1", "0", "0">>>>

(***************************************************************************)
(* C2.  For a 2xx search answer of the documented shape with N posts, the  *)
(* result is one text block whose memos are exactly N items, the i-th      *)
(* holding the id, title and url of the i-th post and nothing else, and    *)
(* whose total, nextPage and previousPage are the answer's meta.total,     *)
(* meta.next_page and meta.previous_page.                                  *)
(***************************************************************************)
C2_SearchProjection ==
    \A c \in Calls : (IsSearch(c) /\ GoodAnswer(c)) =>
        /\ Succeeded(c)
        /\ LET posts == body[c][1].f.posts.a
               meta  == body[c][1].f.meta.f
               memos == TextField(TextOf(c), "memos")
           IN  /\ TextKeys(TextOf(c)) = <<"memos", "total", "nextPage", "previousPage">>
               /\ memos.t = "arr"
               /\ Len(memos.a) = Len(posts)
               /\ \A i \in 1..Len(posts) :
                     /\ TextKeys(memos.a[i]) = <<"id", "title", "url">>
                     /\ TextField(memos.a[i], "id") = posts[i].f.id
                     /\ TextField(memos.a[i], "title") = posts[i].f.title
                     /\ TextField(memos.a[i], "url") = posts[i].f.url
               /\ TextField(TextOf(c), "total") = meta.total
               /\ TextField(TextOf(c), "nextPage") = meta.next_page
               /\ TextField(TextOf(c), "previousPage") = meta.previous_page

\* a search of two different posts has returned
C2_Witness ==
    \E c \in Calls :
        /\ IsSearch(c) /\ GoodAnswer(c) /\ Succeeded(c)
        /\ body[c][1].f.posts.a = <<PostB, PostA>>
        /\ body[c][1].f.meta = MetaLast

(***************************************************************************)
(* C3.  For both tools, a call whose upstream response has a non-2xx       *)
(* status has ended in failure, not in a content block, and the message of *)
(* the error it reports contains the status code in decimal.               *)
(***************************************************************************)
C3_NonOkFails ==
    \A c \in Calls : (resp[c] # None /\ ~(resp[c][1].status \in 200..299)) =>
        /\ Done(c)
        /\ result[c].kind = "error"
        /\ Contains(result[c].error.message, NumberToString(resp[c][1].status))

\* a search and a detail call have both failed on a non-2xx response
C3_Witness ==
    \E c, d \in Calls :
        /\ IsSearch(c) /\ resp[c] # None /\ resp[c][1].status = 404 /\ Done(c)
        /\ IsDetail(d) /\ resp[d] # None /\ resp[d][1].status = 502 /\ Done(d)

(***************************************************************************)
(* C4.  When DOCBASE_TOKEN or DOCBASE_DOMAIN is missing, the process never *)
(* gets past the two checks: it exits, with status 1, and no server is     *)
(* ever created or connected, no tool registered or called, no request     *)
(* issued.                                                                 *)
(***************************************************************************)
ConfigMissing == Falsy(env.token) \/ Falsy(env.domain)

C4_MissingConfigExits ==
    ConfigMissing =>
        /\ proc \in {"checkToken", "checkDomain", "exited"}
        /\ (proc = "checkDomain" => ~Falsy(env.token))
        /\ (proc = "exited" => exitCode = Some(1))
        /\ ~server /\ tools = {} /\ ~connected
        /\ \A c \in Calls : ~Invoked(c) /\ sent[c] = <<>>

\* the token is set, the domain is not, and the process has exited
C4_Witness ==
    /\ ~Falsy(env.token) /\ Falsy(env.domain)
    /\ proc = "exited" /\ exitCode = Some(1)

(***************************************************************************)
(* C5.  For a 2xx detail answer of the documented shape, the result is one *)
(* text block holding exactly id, title, body, url, createdAt, updatedAt,  *)
(* tags, user and groups: tags and groups are the names of the record's    *)
(* tags and groups in their order, user is the record's user.name, and the *)
(* other six are the record's id, title, body, url, created_at and         *)
(* updated_at.                                                             *)
(***************************************************************************)
C5_DetailProjection ==
    \A c \in Calls : (IsDetail(c) /\ GoodAnswer(c)) =>
        /\ Succeeded(c)
        /\ LET memo == body[c][1].f
               text == TextOf(c)
           IN  /\ TextKeys(text) = <<"id", "title", "body", "url", "createdAt",
                                     "updatedAt", "tags", "user", "groups">>
               /\ TextField(text, "id") = memo.id
               /\ TextField(text, "title") = memo.title
               /\ TextField(text, "body") = memo.body
               /\ TextField(text, "url") = memo.url
               /\ TextField(text, "createdAt") = memo.created_at
               /\ TextField(text, "updatedAt") = memo.updated_at
               /\ TextField(text, "tags") =
                      JArr([i \in 1..Len(memo.tags.a) |-> memo.tags.a[i].f.name])
               /\ TextField(text, "user") = memo.user.f.name
               /\ TextField(text, "groups") =
                      JArr([i \in 1..Len(memo.groups.a) |-> memo.groups.a[i].f.name])

\* the detail of a record with tags a, b, group g and user u has returned
C5_Witness ==
    \E c \in Calls :
        /\ IsDetail(c) /\ GoodAnswer(c) /\ Succeeded(c)
        /\ body[c][1] = GoodDetailBody
        /\ TextField(TextOf(c), "tags") = JArr(<<JStr("a"), JStr("b")>>)

(***************************************************************************)
(* C6.  A failed call ends only itself: whenever a call has failed the     *)
(* process is still serving, and a call made after a failure that gets a   *)
(* good answer succeeds, with the same request and the same result as a    *)
(* call with the same inputs made when nothing had failed.                 *)
(***************************************************************************)
C6_FailureIsolated ==
    \A c \in Calls :
        /\ (Failed(c) => proc = "serving")
        /\ (Invoked(c) /\ afterFailure[c]) =>
              /\ proc = "serving"
              /\ (Done(c) /\ GoodAnswer(c)) =>
                    /\ Succeeded(c)
                    /\ \A d \in Calls :
                          (Done(d) /\ ~afterFailure[d] /\ SameInputs(c, d)) =>
                              (sent[d] = sent[c] /\ result[d] = result[c])

\* call 1 succeeded, call 2 then failed, and call 3, made after that failure
\* with call 1's inputs, succeeded
C6_Witness ==
    /\ Succeeded(1) /\ ~afterFailure[1]
    /\ Failed(2)
    /\ afterFailure[3] /\ Succeeded(3) /\ GoodAnswer(3) /\ SameInputs(1, 3)

(***************************************************************************)
(* C7.  Calls in flight together do not interact: the request of a call is *)
(* determined by its tool and parameters, and its outcome by those and the *)
(* upstream's answer to its own request, whatever the other calls do and   *)
(* in whatever order the answers arrive.                                   *)
(***************************************************************************)
C7_CallsIndependent ==
    \A c, d \in Calls :
        (Invoked(c) /\ Invoked(d) /\ tool[c] = tool[d] /\ args[c] = args[d]) =>
            /\ sent[c] = sent[d]
            /\ (Done(c) /\ Done(d) /\ resp[c] = resp[d] /\ body[c] = body[d]) =>
                  result[c] = result[d]

\* call 1 still waits for its answer while calls 2 and 3, made later with
\* equal inputs, have both returned
C7_Witness ==
    /\ pc[1] = "fetch" /\ answers[1]
    /\ Succeeded(2) /\ Succeeded(3) /\ SameInputs(2, 3)
    /\ tool[1] = tool[2]

(***************************************************************************)
(* C8.  Every tool call issues exactly one HTTP request, a GET, when it    *)
(* starts, and none afterwards: whether it is waiting, has succeeded or    *)
(* has failed, it has issued one request.                                  *)
(***************************************************************************)
C8_OneRequestPerCall ==
    \A c \in Calls :
        /\ Len(sent[c]) = (IF Invoked(c) THEN 1 ELSE 0)
        /\ \A i \in 1..Len(sent[c]) : sent[c][i].method = "GET"

\* one call failed on a non-2xx response and another succeeded
C8_Witness ==
    \E c, d \in Calls :
        /\ Failed(c) /\ resp[c] # None /\ ~Ok(resp[c][1].status) /\ Len(sent[c]) = 1
        /\ Succeeded(d) /\ Len(sent[d]) = 1

C10_SinglePostPath ==
    \A c \in Calls : IsDetail(c) =>
        \A i \in 1..Len(sent[c]) :
            LET req == sent[c][i]
                id  == args[c][1].id
            IN  /\ req.scheme = "https" /\ req.host = "api.docbase.io"
                /\ req.query = None
                /\ PathString(req.path) =
                       <<"/", "teams", "/">> \o env.domain[1] \o <<"/", "posts", "/">>
                           \o [k \in 1..Len(id) |-> UrlEncode(id[k])]

\* an id was passed whose request goes to another tenant's path
C10_OtherTenant ==
    \E c \in Calls :
        /\ IsDetail(c)
        /\ sent[c][1].path = <<<<"teams">>, <<"evil">>>>

====
